---- MODULE Spec2Model ----
(***************************************************************************)
(* Model of drafr/rate_converter (src/main.cpp): the dense Converter       *)
(* (incremental all-pairs relaxation) and the BFSConverter (adjacency maps *)
(* plus one breadth-first search per source), both initialised with the    *)
(* same edge vector and then queried with convert.                         *)
(*                                                                         *)
(* The edge vector handed to init is drawn element by element as the       *)
(* loops of init consume it; every provider (rateFn) is identified by the  *)
(* position of its edge in that vector and returns, during one query, the  *)
(* value the query's quote assigns to it.  double arithmetic is modelled   *)
(* by exact rationals (numerator, denominator).                            *)
(***************************************************************************)
EXTENDS Integers, Sequences, FiniteSets, TLC

\* Size of the currency universe (src/main.cpp:10 sets 2000), scaled down.
MAX_CUR_NUMBER == 4
\* Longest edge vector handed to init.
MaxEdges == 4
\* Longest edge vector of a pair of converters that is then queried.
MaxQueryEdges == 3
\* Most providers that return 0 during one query.
MaxDown == 1

CurId == 0..(MAX_CUR_NUMBER - 1)

\* Cell::norate
norate == 0

\* std::numeric_limits<uint32_t>::max() in the source; here the largest
\* 32-bit signed integer.  It is only compared, never added to (the source
\* tests both operands against it before it adds).
unreachable == 2147483647

VARIABLES
  phase,       \* "new" | "init" | "ready" | "returned"
  edges,       \* the part of _rates consumed so far: <<[from, to]>>
  rates,       \* Converter::rates, the provider of each index (0-based + 1)
  rate_table,  \* Converter::rate_table
  distance,    \* the local 'distance' of Converter::init, while it runs
  mRates,      \* BFSConverter::mRates
  mPaths,      \* BFSConverter::mPaths
  query,       \* the arguments of the convert call that returned last
  quote,       \* what each provider returns during that call
  dense,       \* what Converter::convert did and returned
  bfs          \* what BFSConverter::convert did and returned

tables == <<rates, rate_table, distance, mRates, mPaths>>
call == <<query, quote, dense, bfs>>
vars == <<phase, edges, rates, rate_table, distance, mRates, mPaths,
          query, quote, dense, bfs>>

\* Cell(CurId _nextCur, int32_t _rateId)
Cell(nextCur, rateId) == [rateId |-> rateId, nextCur |-> nextCur]

\* Cell()
defaultCell == Cell(MAX_CUR_NUMBER, norate)

\* The provider pushed first: []() { return 0.0; }
dummyFn == 0

(***************************************************************************)
(* Converter::init                                                         *)
(***************************************************************************)

\* RelaxPair with 'new_distance > distance[i][j]' for '>=': a route as short
\* as the recorded one replaces it.
RelaxPairTies(st, from, to, i, j) ==
  IF st.distance[from][i] # unreachable /\ st.distance[to][j] # unreachable
  THEN LET new_distance == st.distance[from][i] + st.distance[to][j] + 1 IN
       IF new_distance > st.distance[i][j]
       THEN st
       ELSE LET d1 == [st.distance EXCEPT ![j][i] = new_distance]
                d2 == [d1 EXCEPT ![i][j] = new_distance]
                t1 == [st.rate_table EXCEPT ![i][j].nextCur =
                         IF i # from THEN st.rate_table[i][from].nextCur ELSE to]
                t2 == [t1 EXCEPT ![j][i].nextCur =
                         IF j # to THEN t1[j][to].nextCur ELSE from]
            IN [distance |-> d2, rate_table |-> t2]
  ELSE st

\* One iteration (i, j) of the relaxation loops, on st = [distance,
\* rate_table], both updated in place.
RelaxPair(st, from, to, i, j) ==
  IF st.distance[from][i] # unreachable /\ st.distance[to][j] # unreachable
  THEN LET new_distance == st.distance[from][i] + st.distance[to][j] + 1 IN
       IF new_distance >= st.distance[i][j]
       THEN st
       ELSE LET d1 == [st.distance EXCEPT ![j][i] = new_distance]
                d2 == [d1 EXCEPT ![i][j] = new_distance]
                t1 == [st.rate_table EXCEPT ![i][j].nextCur =
                         IF i # from THEN st.rate_table[i][from].nextCur ELSE to]
                t2 == [t1 EXCEPT ![j][i].nextCur =
                         IF j # to THEN t1[j][to].nextCur ELSE from]
            IN [distance |-> d2, rate_table |-> t2]
  ELSE st

\* The two nested loops over i and j, from pair number p on (p = i * N + j).
RECURSIVE Relax(_, _, _, _)
Relax(st, from, to, p) ==
  IF p = MAX_CUR_NUMBER * MAX_CUR_NUMBER
  THEN st
  ELSE Relax(RelaxPair(st, from, to, p \div MAX_CUR_NUMBER, p % MAX_CUR_NUMBER),
             from, to, p + 1)

\* DenseFold without 'rate_table[to][from].rateId = -newRateId'.
DenseFoldOneWay(st, from, to, newRateId) ==
  LET t1 == [st.rate_table EXCEPT ![from][to].rateId = newRateId]
  IN Relax([distance |-> st.distance, rate_table |-> t1], from, to, 0)

\* The body of 'for (const auto& rate : _rates)' for one edge.
DenseFold(st, from, to, newRateId) ==
  LET t1 == [st.rate_table EXCEPT ![from][to].rateId = newRateId]
      t2 == [t1 EXCEPT ![to][from].rateId = -newRateId]
  IN Relax([distance |-> st.distance, rate_table |-> t2], from, to, 0)

(***************************************************************************)
(* BFSConverter::init                                                      *)
(***************************************************************************)

\* m[k] = c on a std::unordered_map
Put(m, k, c) == [x \in (DOMAIN m) \cup {k} |-> IF x = k THEN c ELSE m[x]]

\* BFSRegister with the reverse cell given newRateId, not -newRateId.
BFSRegisterUnsigned(paths, from, to, newRateId) ==
  LET p1 == [paths EXCEPT ![from] = Put(@, to, Cell(to, newRateId))]
  IN [p1 EXCEPT ![to] = Put(@, from, Cell(from, newRateId))]

\* The body of the first loop of BFSConverter::init for one edge.
BFSRegister(paths, from, to, newRateId) ==
  LET p1 == [paths EXCEPT ![from] = Put(@, to, Cell(to, newRateId))]
  IN [p1 EXCEPT ![to] = Put(@, from, Cell(from, -newRateId))]

\* The orders in which a set can be enumerated (the iteration order of an
\* unordered_map is unspecified).
RECURSIVE Orders(_)
Orders(S) ==
  IF S = {} THEN {<<>>}
  ELSE UNION {{<<x>> \o o : o \in Orders(S \ {x})} : x \in S}

\* Lines 170-179: mark the source, enqueue its direct neighbours.
\* b = [paths, visitedNodes, nextToVisitCurs].
BFSStart(paths, visitedNodes, from) ==
  LET keys == DOMAIN paths[from] IN
  {[paths |-> paths,
    visitedNodes |-> [c \in CurId |->
                        IF c = from \/ c \in keys THEN from ELSE visitedNodes[c]],
    nextToVisitCurs |-> [k \in 1..Len(o) |-> <<o[k], o[k]>>]] : o \in Orders(keys)}

\* BFSVisit recording the currency being visited, not the first hop of the
\* route to it (nextIt->first for nextIt->second).
BFSVisitLast(b, from) ==
  LET visitingId == b.nextToVisitCurs[1][1]
      started == b.nextToVisitCurs[1][2]
      v1 == [b.visitedNodes EXCEPT ![visitingId] = from]
      found == {b.paths[visitingId][k].nextCur : k \in DOMAIN b.paths[visitingId]}
      fresh == {c \in found : v1[c] # from}
  IN {[paths |-> [b.paths EXCEPT ![from] =
                    [x \in (DOMAIN @) \cup fresh |->
                       IF x \in fresh THEN Cell(visitingId, norate) ELSE @[x]]],
       visitedNodes |-> [c \in CurId |-> IF c \in fresh THEN from ELSE v1[c]],
       nextToVisitCurs |-> Tail(b.nextToVisitCurs) \o
                             [k \in 1..Len(o) |-> <<o[k], started>>]]
        : o \in Orders(fresh)}

\* One iteration of the while loop (lines 183-196).  Cells whose nextCur is
\* already visited are skipped, so an iteration order matters only through
\* the order in which it meets the currencies not visited yet.
BFSVisit(b, from) ==
  LET visitingId == b.nextToVisitCurs[1][1]
      started == b.nextToVisitCurs[1][2]
      v1 == [b.visitedNodes EXCEPT ![visitingId] = from]
      found == {b.paths[visitingId][k].nextCur : k \in DOMAIN b.paths[visitingId]}
      fresh == {c \in found : v1[c] # from}
  IN {[paths |-> [b.paths EXCEPT ![from] =
                    [x \in (DOMAIN @) \cup fresh |->
                       IF x \in fresh THEN Cell(started, norate) ELSE @[x]]],
       visitedNodes |-> [c \in CurId |-> IF c \in fresh THEN from ELSE v1[c]],
       nextToVisitCurs |-> Tail(b.nextToVisitCurs) \o
                             [k \in 1..Len(o) |-> <<o[k], started>>]]
        : o \in Orders(fresh)}

\* The while loop, to the end of the list, from each of the states bs: the
\* states it can end in.
RECURSIVE BFSDrain(_, _)
BFSDrain(bs, from) ==
  IF \A b \in bs : b.nextToVisitCurs = <<>> THEN bs
  ELSE BFSDrain(UNION {IF b.nextToVisitCurs = <<>> THEN {b} ELSE BFSVisit(b, from)
                         : b \in bs}, from)

\* 'for (CurId from = 0; from < mPaths.size(); ++from)', from source 'from' on:
\* the tables the loop can end with.
RECURSIVE BFSSearch(_, _, _)
BFSSearch(paths, visitedNodes, from) ==
  IF from = MAX_CUR_NUMBER THEN {paths}
  ELSE UNION {BFSSearch(e.paths, e.visitedNodes, from + 1)
                : e \in BFSDrain(BFSStart(paths, visitedNodes, from), from)}

(***************************************************************************)
(* double arithmetic, as exact rationals <<numerator, denominator>>        *)
(***************************************************************************)

RECURSIVE Gcd(_, _)
Gcd(a, b) == IF b = 0 THEN a ELSE Gcd(b, a % b)

Abs(n) == IF n < 0 THEN -n ELSE n

\* n / d in lowest terms, the denominator positive (d # 0).
\* <<1, 0>> and <<-1, 0>> stand for the infinities, <<0, 0>> for NaN.
Frac(n, d) ==
  LET g == Gcd(Abs(n), Abs(d))
      s == IF d < 0 THEN -1 ELSE 1
  IN IF g = 0 THEN <<0, 0>> ELSE <<(s * n) \div g, (s * d) \div g>>

Num(n) == <<n, 1>>
Times(x, y) == Frac(x[1] * y[1], x[2] * y[2])
Over(x, y) == Frac(x[1] * y[2], x[2] * y[1])

(***************************************************************************)
(* convert                                                                 *)
(***************************************************************************)

\* rts[rateId](): the provider registered at rateId, asked during a call in
\* which the providers return 'q'.  The dummy provider returns 0.0.
Ask(rts, rateId, q) ==
  IF rts[rateId + 1] = dummyFn THEN Num(0) ELSE Num(q[rts[rateId + 1]])

\* ApplyRate dividing without the test 'rate == 0'.
ApplyRateUnchecked(w, rts, rateId, q) ==
  IF rateId > 0
  THEN [w EXCEPT !.totalRate = Times(@, Ask(rts, rateId, q)),
                 !.asked = Append(@, rts[rateId + 1])]
  ELSE [w EXCEPT !.totalRate = Over(@, Ask(rts, -rateId, q)),
                 !.asked = Append(@, rts[-rateId + 1]),
                 !.divisors = Append(@, Ask(rts, -rateId, q))]

\* Lines 102-113 (216-227): one hop's rate folded into totalRate.
\* w = [totalRate, asked (the providers invoked, in order), divisors].
ApplyRate(w, rts, rateId, q) ==
  IF rateId > 0
  THEN [w EXCEPT !.totalRate = Times(@, Ask(rts, rateId, q)),
                 !.asked = Append(@, rts[rateId + 1])]
  ELSE LET rate == Ask(rts, -rateId, q) IN
       IF rate = Num(0)
       THEN [w EXCEPT !.totalRate = Num(0),
                      !.asked = Append(@, rts[-rateId + 1])]
       ELSE [w EXCEPT !.totalRate = Over(@, Ask(rts, -rateId, q)),
                      !.asked = @ \o <<rts[-rateId + 1], rts[-rateId + 1]>>,
                      !.divisors = Append(@, Ask(rts, -rateId, q))]

\* Final returning totalRate, not multiplied by value.
FinalRate(w, value) ==
  [ret |-> w.totalRate, asked |-> w.asked,
   divisors |-> w.divisors, hops |-> w.hops, end |-> "return"]

\* Lines 118-119 (232-233): the value returned after the loop.
Final(w, value) ==
  [ret |-> Times(w.totalRate, Num(value)), asked |-> w.asked,
   divisors |-> w.divisors, hops |-> w.hops, end |-> "return"]

\* A call that leaves the arrays (reads rate_table[..][MAX_CUR_NUMBER] or
\* mPaths[MAX_CUR_NUMBER]) or walks longer than any route: no defined result.
Lost(w, how) ==
  [ret |-> Num(0), asked |-> w.asked, divisors |-> w.divisors,
   hops |-> w.hops, end |-> how]

start(from) ==
  [totalRate |-> Num(1), asked |-> <<>>, divisors |-> <<>>, hops |-> <<from>>]

\* The do-while loop of Converter::convert from prevCur on.
RECURSIVE DenseLoop(_, _, _, _, _, _)
DenseLoop(table, rts, q, w, prevCur, to) ==
  LET nextCur == table[prevCur][to].nextCur IN
  IF nextCur = MAX_CUR_NUMBER THEN Lost(w, "out of bounds")
  ELSE IF Len(w.hops) > MAX_CUR_NUMBER THEN Lost(w, "endless")
  ELSE LET w1 == ApplyRate([w EXCEPT !.hops = Append(@, nextCur)],
                           rts, table[prevCur][nextCur].rateId, q)
       IN IF nextCur # to
          THEN DenseLoop(table, rts, q, w1, nextCur, to)
          ELSE w1

\* DenseConvert without the test of the sentinel before the loop.
DenseConvertUnchecked(table, rts, q, value, from, to) ==
  LET w == DenseLoop(table, rts, q, start(from), from, to) IN
  IF "end" \in DOMAIN w THEN w ELSE Final(w, value)

\* Converter::convert
DenseConvert(table, rts, q, value, from, to) ==
  IF table[from][to].nextCur = MAX_CUR_NUMBER
  THEN [ret |-> Num(0), asked |-> <<>>, divisors |-> <<>>, hops |-> <<>>,
        end |-> "unavailable"]
  ELSE LET w == DenseLoop(table, rts, q, start(from), from, to) IN
       IF "end" \in DOMAIN w THEN w ELSE Final(w, value)

\* m[k] read through operator[] of a std::unordered_map: a missing key is
\* inserted with Cell().
Touch(m, k) == IF k \in DOMAIN m THEN m ELSE Put(m, k, defaultCell)

\* The do-while loop of BFSConverter::convert from prevCur on; the result
\* carries the table, which operator[] may have grown.
RECURSIVE BFSLoop(_, _, _, _, _, _)
BFSLoop(paths, rts, q, w, prevCur, to) ==
  LET p1 == [paths EXCEPT ![prevCur] = Touch(@, to)]
      nextCur == p1[prevCur][to].nextCur
      p2 == [p1 EXCEPT ![prevCur] = Touch(@, nextCur)]
      w1 == ApplyRate([w EXCEPT !.hops = Append(@, nextCur), !.paths = p2],
                      rts, p2[prevCur][nextCur].rateId, q)
  IN IF nextCur = to THEN w1
     ELSE IF nextCur = MAX_CUR_NUMBER THEN Lost(w1, "out of bounds") @@ [paths |-> p2]
     ELSE IF Len(w.hops) > MAX_CUR_NUMBER THEN Lost(w1, "endless") @@ [paths |-> p2]
     ELSE BFSLoop(p2, rts, q, w1, nextCur, to)

\* BFSConvert without the test 'mPaths[from].count(to) == 0'.
BFSConvertUnchecked(paths, rts, q, value, from, to) ==
  IF from = to
  THEN [ret |-> Num(value), asked |-> <<>>, divisors |-> <<>>, hops |-> <<>>,
        end |-> "identity", paths |-> paths]
  ELSE LET w == BFSLoop(paths, rts, q, start(from) @@ [paths |-> paths], from, to)
       IN IF "end" \in DOMAIN w THEN w ELSE Final(w, value) @@ [paths |-> w.paths]

\* BFSConverter::convert; 'paths' of the result is mPaths after the call.
BFSConvert(paths, rts, q, value, from, to) ==
  IF to \notin DOMAIN paths[from]
  THEN [ret |-> Num(0), asked |-> <<>>, divisors |-> <<>>, hops |-> <<>>,
        end |-> "unavailable", paths |-> paths]
  ELSE IF from = to
  THEN [ret |-> Num(value), asked |-> <<>>, divisors |-> <<>>, hops |-> <<>>,
        end |-> "identity", paths |-> paths]
  ELSE LET w == BFSLoop(paths, rts, q, start(from) @@ [paths |-> paths], from, to)
       IN IF "end" \in DOMAIN w THEN w ELSE Final(w, value) @@ [paths |-> w.paths]

(***************************************************************************)
(* Actions                                                                 *)
(***************************************************************************)

\* The objects as their constructors leave them.
Init ==
  /\ phase = "new"
  /\ edges = <<>>
  /\ rates = <<>>
  /\ rate_table = [i \in CurId |-> [j \in CurId |-> defaultCell]]
  /\ distance = [i \in CurId |-> [j \in CurId |-> unreachable]]
  /\ mRates = <<>>
  /\ mPaths = <<>>
  /\ query = <<>>
  /\ quote = <<>>
  /\ dense = <<>>
  /\ bfs = <<>>

\* Both init calls up to their loops over the edges.
InitBegin ==
  /\ phase = "new"
  /\ phase' = "init"
  /\ rate_table' = [i \in CurId |-> [j \in CurId |-> defaultCell]]
  /\ rates' = Append(rates, dummyFn)
  /\ distance' = [i \in CurId |-> [j \in CurId |->
                    IF i = j THEN 0 ELSE unreachable]]
  /\ mRates' = <<dummyFn>>
  /\ mPaths' = [i \in CurId |-> <<>>]
  /\ UNCHANGED <<edges, call>>

\* Both loops over the edges take the next edge (from, to, rateFn).
InitEdge(from, to) ==
  /\ phase = "init"
  /\ edges' = Append(edges, [from |-> from, to |-> to])
  /\ LET st == DenseFold([distance |-> distance, rate_table |-> rate_table],
                         from, to, Len(rates))
     IN /\ distance' = st.distance
        /\ rate_table' = st.rate_table
  /\ rates' = Append(rates, Len(edges) + 1)
  /\ mPaths' = BFSRegister(mPaths, from, to, Len(mRates))
  /\ mRates' = Append(mRates, Len(edges) + 1)
  /\ UNCHANGED <<phase, call>>

\* The edges are exhausted: Converter::init returns, BFSConverter::init runs
\* its searches and returns.
InitEnd ==
  /\ phase = "init"
  /\ phase' = "ready"
  /\ mPaths' \in BFSSearch(mPaths, [c \in CurId |-> MAX_CUR_NUMBER], 0)
  /\ distance' = <<>>
  /\ UNCHANGED <<edges, rates, rate_table, mRates, call>>

NextInit ==
  \/ InitBegin
  \/ \E from \in CurId, to \in CurId :
       Len(edges) < MaxEdges /\ InitEdge(from, to)
  \/ InitEnd

SpecInit == Init /\ [][NextInit]_vars

\* The amounts a query is made with.
Amounts == {6}

\* The rate provider k quotes when it is available; the rates are distinct
\* primes, so that two products are equal only if they use the same
\* providers in the same directions.
Rate(k) == <<2, 3, 5, 7, 11, 13>>[k]

\* What the providers of n edges can return during one call: each its rate,
\* or 0 (not available) for at most MaxDown of them.
Quotes(n) == {[k \in 1..n |-> IF k \in down THEN 0 ELSE Rate(k)] :
                down \in {d \in SUBSET (1..n) : Cardinality(d) <= MaxDown}}

\* convert(value, from, to) on both converters, while the providers
\* return 'q'.
Convert(value, from, to, q) ==
  /\ phase = "ready"
  /\ phase' = "returned"
  /\ query' = [value |-> value, from |-> from, to |-> to]
  /\ quote' = q
  /\ dense' = DenseConvert(rate_table, rates, q, value, from, to)
  /\ LET r == BFSConvert(mPaths, mRates, q, value, from, to) IN
       /\ bfs' = [x \in (DOMAIN r) \ {"paths"} |-> r[x]]
       /\ mPaths' = r.paths
  /\ UNCHANGED <<edges, rates, rate_table, distance, mRates>>

\* The caller takes the results; the converters are ready for the next call.
Return ==
  /\ phase = "returned"
  /\ phase' = "ready"
  /\ query' = <<>> /\ quote' = <<>> /\ dense' = <<>> /\ bfs' = <<>>
  /\ UNCHANGED <<edges, tables>>

Next ==
  \/ InitBegin
  \/ \E from \in CurId, to \in CurId :
       Len(edges) < MaxQueryEdges /\ InitEdge(from, to)
  \/ InitEnd
  \/ \E value \in Amounts, from \in CurId, to \in CurId :
       \E q \in Quotes(Len(edges)) : Convert(value, from, to, q)
  \/ Return

Spec == Init /\ [][Next]_vars

(***************************************************************************)
(* What the edges say, computed from the edge vector alone                 *)
(***************************************************************************)

\* Edge k of es joins a and b, in either direction.
Joins(es, k, a, b) ==
  \/ es[k].from = a /\ es[k].to = b
  \/ es[k].from = b /\ es[k].to = a

Joined(es, a, b) == \E k \in 1..Len(es) : Joins(es, k, a, b)

\* f with every value computed (a function written [x \in S |-> e] is
\* otherwise evaluated again at each use).
Known(f) == f @@ <<>>

\* The neighbours of every currency.
Neighbours(es) ==
  Known([a \in CurId |-> {b \in CurId : Joined(es, a, b)}])

\* Breadth-first layers: d with the currencies of 'front' set to n, those
\* of the next layer to n + 1, and so on.
RECURSIVE Layers(_, _, _, _, _)
Layers(nbr, seen, front, n, d) ==
  IF front = {} THEN d
  ELSE LET next == (UNION {nbr[c] : c \in front}) \ seen
       IN Layers(nbr, seen \cup next, next, n + 1,
                 Known([b \in CurId |-> IF b \in front THEN n ELSE d[b]]))

\* The minimum number of edges between every two currencies, 'unreachable'
\* where there is no path.
HopTable(es) ==
  LET nbr == Neighbours(es) IN
  Known([a \in CurId |->
           Layers(nbr, {a}, {a}, 0, Known([b \in CurId |-> unreachable]))])

Hops(es, a, b) ==
  Layers(Neighbours(es), {a}, {a}, 0, Known([c \in CurId |-> unreachable]))[b]

\* The last edge of es that joins a and b.
LastEdge(es, a, b) ==
  CHOOSE k \in 1..Len(es) :
    /\ Joins(es, k, a, b)
    /\ \A l \in (k + 1)..Len(es) : ~Joins(es, l, a, b)

\* The last edge of es registered as (a, b), in that direction.
LastQuoted(es, a, b) ==
  CHOOSE k \in 1..Len(es) :
    /\ es[k].from = a /\ es[k].to = b
    /\ \A l \in (k + 1)..Len(es) : ~(es[l].from = a /\ es[l].to = b)

\* The rate of the hop a -> b over edge k: as quoted along the edge,
\* inverted against it.
HopRate(es, q, k, a, b) ==
  IF es[k].from = a /\ es[k].to = b THEN Num(q[k]) ELSE Over(Num(1), Num(q[k]))

\* The amount after the hops h[s] -> h[s + 1], s >= n, each over the last
\* edge between its two currencies.
RECURSIVE Along(_, _, _, _, _)
Along(es, q, h, n, amount) ==
  IF n >= Len(h) THEN amount
  ELSE Along(es, q, h, n + 1,
             Times(amount, HopRate(es, q, LastEdge(es, h[n], h[n + 1]),
                                   h[n], h[n + 1])))

\* h is a path of the edges from a to b.
IsPath(es, h, a, b) ==
  /\ Len(h) >= 1 /\ h[1] = a /\ h[Len(h)] = b
  /\ \A s \in 1..(Len(h) - 1) : h[s] # h[s + 1] /\ Joined(es, h[s], h[s + 1])

\* The providers of the hops of path h.
OnPath(es, h) == {LastEdge(es, h[s], h[s + 1]) : s \in 1..(Len(h) - 1)}

(***************************************************************************)
(* What the tables say                                                     *)
(***************************************************************************)

\* next_hop of the two tables; MAX_CUR_NUMBER where the lookup reports
\* unreachable.
DenseNext(i, j) == rate_table[i][j].nextCur
BFSNext(i, j) ==
  IF j \in DOMAIN mPaths[i] THEN mPaths[i][j].nextCur ELSE MAX_CUR_NUMBER

\* The currencies met following the nextCur of table t from i toward j, for
\* at most n steps.
RECURSIVE Follow(_, _, _, _)
Follow(t, i, j, n) ==
  IF i = j \/ n = 0 \/ t[i][j].nextCur = MAX_CUR_NUMBER THEN <<i>>
  ELSE <<i>> \o Follow(t, t[i][j].nextCur, j, n - 1)

\* The cell for the hop a -> b carries the signed index of an edge between
\* a and b: positive for an edge (a, b), negative for an edge (b, a).
Direct(cell, rts, a, b) ==
  /\ cell.rateId # norate
  /\ Abs(cell.rateId) < Len(rts)
  /\ LET k == rts[Abs(cell.rateId) + 1] IN
       /\ k \in 1..Len(edges)
       /\ IF cell.rateId > 0
          THEN edges[k].from = a /\ edges[k].to = b
          ELSE edges[k].from = b /\ edges[k].to = a

DenseRouted(hop, i, j) ==
  LET r == Follow(rate_table, i, j, MAX_CUR_NUMBER)
  IN /\ r[Len(r)] = j
     /\ Len(r) - 1 = hop[i][j]
     /\ \A s \in 1..(Len(r) - 1) :
          Direct(rate_table[r[s]][r[s + 1]], rates, r[s], r[s + 1])

BFSRouted(hop, i, j) ==
  LET r == Follow([a \in CurId |-> [b \in CurId |-> Cell(BFSNext(a, b), norate)]],
                  i, j, MAX_CUR_NUMBER)
  IN /\ r[Len(r)] = j
     /\ Len(r) - 1 = hop[i][j]
     /\ \A s \in 1..(Len(r) - 1) :
          /\ r[s + 1] \in DOMAIN mPaths[r[s]]
          /\ Direct(mPaths[r[s]][r[s + 1]], mRates, r[s], r[s + 1])

(***************************************************************************)
(* C1: after init, in both converters, following next_hop from i toward a  *)
(* connected j # i reaches j in the minimum number of edges, and every     *)
(* step's cell carries the signed index of an edge between its two         *)
(* currencies.  (The dense table is complete after every edge it folds.)   *)
(***************************************************************************)
C1_ShortestRoutes ==
  LET hop == HopTable(edges) IN
  /\ phase \in {"init", "ready"} =>
       \A i \in CurId, j \in CurId :
         i # j /\ hop[i][j] # unreachable => DenseRouted(hop, i, j)
  /\ phase = "ready" =>
       \A i \in CurId, j \in CurId :
         i # j /\ hop[i][j] # unreachable => BFSRouted(hop, i, j)

\* Two currencies two edges apart, joined by two different shortest routes,
\* in tables that are complete.
C1_Witness ==
  /\ phase = "ready"
  /\ \E i \in CurId, j \in CurId :
       /\ Hops(edges, i, j) = 2
       /\ Cardinality({m \in CurId : Joined(edges, i, m) /\ Joined(edges, m, j)
                                       /\ m # i /\ m # j}) = 2

(***************************************************************************)
(* C9: folding one more edge into the dense table leaves next_hop(i, j)    *)
(* unchanged for every pair whose minimum hop distance the edge does not   *)
(* strictly decrease.                                                      *)
(***************************************************************************)
C9_FirstShortestWins ==
  [][phase = "init" /\ edges' # edges =>
       LET before == HopTable(edges)
           after == HopTable(edges')
       IN \A i \in CurId, j \in CurId :
            ~(after[i][j] < before[i][j]) =>
              rate_table'[i][j].nextCur = rate_table[i][j].nextCur]_vars

\* The edge folded last gave two currencies a second route as short as the
\* one recorded before, and the recorded one does not use it.
C9_Witness ==
  /\ phase = "init" /\ Len(edges) >= 1
  /\ LET old == SubSeq(edges, 1, Len(edges) - 1)
         e == edges[Len(edges)]
     IN \E i \in CurId, j \in CurId :
          /\ Hops(old, i, j) = 2 /\ Hops(edges, i, j) = 2
          /\ Hops(old, i, e.from) = 0 /\ Hops(old, e.to, j) = 1
          /\ ~Joined(old, e.from, e.to)
          /\ DenseNext(i, j) # e.to

(***************************************************************************)
(* Queries                                                                 *)
(***************************************************************************)

Returned == phase = "returned"
Connected == Hops(edges, query.from, query.to) # unreachable

\* A converter followed a path of the edges and returned normally.
Walked(r) ==
  /\ r.end = "return"
  /\ IsPath(edges, r.hops, query.from, query.to)

(***************************************************************************)
(* C2: for a connected pair from # to whose route providers all return     *)
(* non-zero values, convert returns the amount multiplied by the value of  *)
(* every hop taken in its edge's quoted direction and divided by the value *)
(* of every hop taken against it (the edge of a hop being the last one     *)
(* registered between its two currencies), over a route of the minimum     *)
(* number of hops; so edges (a, b, r1), (b, c, r2) alone give amount * r1   *)
(* * r2 from a to c.                                                       *)
(***************************************************************************)
C2_Composition ==
  Returned /\ query.from # query.to /\ Connected =>
    \A r \in {dense, bfs} :
      /\ Walked(r)
      /\ Len(r.hops) - 1 = Hops(edges, query.from, query.to)
      /\ (\A k \in OnPath(edges, r.hops) : quote[k] # 0) =>
           r.ret = Along(edges, quote, r.hops, 1, Num(query.value))

\* A route of three hops, one of them against its edge's direction, with
\* every provider available.
C2_Witness ==
  /\ Returned /\ dense.end = "return" /\ bfs.end = "return"
  /\ Len(dense.hops) = 4 /\ Len(bfs.hops) = 4
  /\ \A k \in 1..Len(edges) : quote[k] # 0
  /\ \E s \in 1..3 : edges[LastEdge(edges, dense.hops[s], dense.hops[s + 1])].to
                       = dense.hops[s]
  /\ \E s \in 1..3 : edges[LastEdge(edges, dense.hops[s], dense.hops[s + 1])].from
                       = dense.hops[s]

(***************************************************************************)
(* C3: for from # to with no path between them convert returns 0 without   *)
(* invoking any provider; and a routing lookup reports unreachable only    *)
(* when no path exists.                                                    *)
(***************************************************************************)
C3_Unreachable ==
  /\ Returned /\ query.from # query.to /\ ~Connected =>
       \A r \in {dense, bfs} :
         r.end = "unavailable" /\ r.ret = Num(0) /\ r.asked = <<>>
  /\ phase = "ready" =>
       LET hop == HopTable(edges) IN
       \A i \in CurId, j \in CurId :
         i # j /\ (DenseNext(i, j) = MAX_CUR_NUMBER \/ j \notin DOMAIN mPaths[i])
           => hop[i][j] = unreachable

\* A query between two currencies of different components, both with edges.
C3_Witness ==
  /\ Returned /\ query.from # query.to /\ ~Connected
  /\ \E a \in CurId, b \in CurId :
       /\ a # query.from /\ Joined(edges, query.from, a)
       /\ b # query.to /\ Joined(edges, query.to, b)
  /\ dense.ret = Num(0) /\ bfs.ret = Num(0)

(***************************************************************************)
(* C4: if a provider on the route chosen for (from, to) returns 0, convert *)
(* returns 0, wherever the provider is in the chain and whichever way its  *)
(* hop is taken; and nothing is ever divided by a provider's 0.            *)
(***************************************************************************)
C4_ZeroPropagates ==
  Returned /\ query.from # query.to /\ Connected =>
    \A r \in {dense, bfs} :
      /\ Walked(r)
      /\ (\E k \in OnPath(edges, r.hops) : quote[k] = 0) => r.ret = Num(0)
      /\ \A d \in 1..Len(r.divisors) : r.divisors[d] # Num(0)

\* A route of three hops whose first provider, taken against its edge's
\* direction, returns 0 while the others do not.
C4_Witness ==
  /\ Returned /\ dense.end = "return" /\ bfs.end = "return"
  /\ Len(dense.hops) = 4 /\ bfs.hops = dense.hops
  /\ LET k == LastEdge(edges, dense.hops[1], dense.hops[2]) IN
       /\ quote[k] = 0
       /\ edges[k].to = dense.hops[1]
       /\ \A l \in 1..Len(edges) : l # k => quote[l] # 0
  /\ dense.ret = Num(0) /\ bfs.ret = Num(0)
  /\ Len(dense.divisors) >= 1

(***************************************************************************)
(* C5: convert(amount, c, c) returns amount, in both converters, whatever  *)
(* the edges.                                                              *)
(***************************************************************************)
C5_Identity ==
  Returned /\ query.from = query.to =>
    /\ dense.ret = Num(query.value)
    /\ bfs.ret = Num(query.value)

(***************************************************************************)
(* C6 as claimed: for every edge (from, to) whose provider returns r # 0,  *)
(* convert(amount, from, to) = amount * r and convert(amount * r, to,      *)
(* from) = amount.  (Stated for the edges between two different            *)
(* currencies.)                                                            *)
(***************************************************************************)
C6_EveryEdge ==
  Returned =>
    \A k \in 1..Len(edges) :
      edges[k].from # edges[k].to /\ quote[k] # 0 =>
        \A r \in {dense, bfs} :
          /\ query.from = edges[k].from /\ query.to = edges[k].to =>
               r.ret = Times(Num(query.value), Num(quote[k]))
          /\ query.from = edges[k].to /\ query.to = edges[k].from =>
               Times(r.ret, Num(quote[k])) = Num(query.value)

(***************************************************************************)
(* C6 as amended: the same for every edge between two different currencies *)
(* that no later edge between the same two currencies follows.             *)
(***************************************************************************)
C6_LastEdgeRoundTrip ==
  Returned =>
    \A k \in 1..Len(edges) :
      /\ edges[k].from # edges[k].to
      /\ k = LastEdge(edges, edges[k].from, edges[k].to)
      /\ quote[k] # 0
      => \A r \in {dense, bfs} :
           /\ query.from = edges[k].from /\ query.to = edges[k].to =>
                r.ret = Times(Num(query.value), Num(quote[k]))
           /\ query.from = edges[k].to /\ query.to = edges[k].from =>
                Times(r.ret, Num(quote[k])) = Num(query.value)

\* A query against the direction of an edge that has other edges around it,
\* answered with the amount divided by the edge's rate.
C6_Witness ==
  /\ Returned /\ Len(edges) = 3
  /\ query.from = edges[2].to /\ query.to = edges[2].from
  /\ query.from # query.to
  /\ LastEdge(edges, query.from, query.to) = 2
  /\ quote[2] # 0 /\ quote[1] = 0
  /\ dense.ret = <<query.value \div quote[2], 1>>
  /\ bfs.ret = dense.ret

(***************************************************************************)
(* C7: a dense Converter and a BFSConverter initialised with the same      *)
(* edges return equal results and agree on which pairs are unavailable,    *)
(* from = to included.                                                     *)
(***************************************************************************)
C7_SameResults ==
  Returned =>
    /\ dense.ret = bfs.ret
    /\ (dense.end = "unavailable") = (bfs.end = "unavailable")

(***************************************************************************)
(* C8: no call of convert changes the routing tables or the registries of  *)
(* either converter.                                                       *)
(***************************************************************************)
C8_ConvertReadsOnly ==
  [][phase = "ready" /\ phase' = "returned" =>
       /\ rate_table' = rate_table /\ rates' = rates
       /\ mPaths' = mPaths /\ mRates' = mRates]_vars

\* A call along a route of three hops has returned.
C8_Witness ==
  /\ Returned
  /\ bfs.end = "return" /\ Len(bfs.hops) = 4
  /\ dense.end = "return" /\ Len(dense.hops) = 4

(***************************************************************************)
(* C10 as claimed: the direct hop a -> b uses the provider of the last     *)
(* edge registered as (a, b), as quoted, whatever was registered later as  *)
(* (b, a).                                                                 *)
(***************************************************************************)
C10_LastQuotedWins ==
  Returned /\ query.from # query.to
    /\ (\E k \in 1..Len(edges) :
          edges[k].from = query.from /\ edges[k].to = query.to) =>
    LET k == LastQuoted(edges, query.from, query.to) IN
    \A r \in {dense, bfs} :
      /\ \A a \in 1..Len(r.asked) : r.asked[a] = k
      /\ r.ret = Times(Num(query.value), Num(quote[k]))

(***************************************************************************)
(* C10 as amended: the direct hop a -> b uses the provider of the last     *)
(* edge registered between a and b in either direction, as quoted if that  *)
(* edge is (a, b) and inverted if it is (b, a).                            *)
(***************************************************************************)
C10_LastEdgeWins ==
  Returned /\ query.from # query.to
    /\ Joined(edges, query.from, query.to) =>
    LET k == LastEdge(edges, query.from, query.to) IN
    \A r \in {dense, bfs} :
      /\ r.asked # <<>>
      /\ \A a \in 1..Len(r.asked) : r.asked[a] = k
      /\ r.ret = IF quote[k] = 0 THEN Num(0)
                 ELSE Times(Num(query.value),
                            HopRate(edges, quote, k, query.from, query.to))

\* Three edges between the same two currencies, the second against the
\* others; the hop is asked along the second one's direction.
C10_Witness ==
  /\ Returned /\ Len(edges) = 3
  /\ edges[1] = edges[3] /\ edges[1].from # edges[1].to
  /\ edges[2].from = edges[1].to /\ edges[2].to = edges[1].from
  /\ query.from = edges[2].from /\ query.to = edges[2].to
  /\ \A k \in 1..3 : quote[k] # 0
  /\ dense.asked = <<3, 3>> /\ bfs.asked = <<3, 3>>

====
